---- MODULE Spec2Model ----
(***************************************************************************)
(* StudySync-AI: the two quiz views.                                       *)
(*   QuizGenerator  (src/unnamed/part_001)                                 *)
(*   QuizContent    (src/src/components/dashboard/NotesContent.tsx)        *)
(* Both hold a question list, a graded flag (showResults) and a loading    *)
(* flag; generateQuiz is an async function whose continuation runs when    *)
(* the file read / fetch settles; QuizContent validates and shuffles the   *)
(* options of every decoded question and hands a quiz_attempts record to   *)
(* the persistence collaborator on submit.                                 *)
(*                                                                         *)
(* JavaScript values: an optional value (a field that may be undefined) is *)
(* a sequence of length at most one, <<>> for undefined.  Indices are the  *)
(* 0-based indices of the source; a TLA+ sequence is read at index + 1.    *)
(***************************************************************************)
EXTENDS Integers, Sequences, FiniteSets, TLC

VARIABLES
    view,            \* which component this instance is
    user,            \* useAuth().user is non-null (QuizContent)
    file,            \* a PDF has been selected
    topic,           \* the topic textarea
    questionCount,   \* the question count input
    questions,       \* Question[]
    loading,         \* loading (QuizContent) / isGenerating (QuizGenerator)
    error,           \* QuizContent's error banner, a sequence of tokens
    showResults,     \* the graded flag
    currentSource,   \* QuizContent's currentSource
    requests,        \* the suspended generateQuiz calls, each the closure it captured
    toast,           \* the toast raised by the last step (QuizGenerator)
    inserted,        \* the quiz_attempts row handed to insert() by the last step
    returnedEarly,   \* the handler that left the last step by an early return, or ""
    mapQ,            \* the element q the map callback is working on
    shuffledOptions, \* the callback's shuffledOptions array
    loopI,           \* the Fisher-Yates loop variable i
    swaps,           \* swaps performed so far by the loop
    draws,           \* the values of j drawn so far by the loop, in order
    mapPc,           \* the callback's position
    mapResult,       \* the callback's return value (or a thrown message)
    text,            \* the response text handed to text.match, a sequence of tokens
    jsonMatch,       \* the result of text.match(/\[[\s\S]*\]/): undefined for null
    parsePc,         \* the position of the extraction
    parseResult,     \* what the extraction ended with
    notes,           \* the notes textarea of the flashcard views
    flashcards,      \* Flashcard[]
    flippedCards,    \* Set<number>
    messages,        \* Message[] of the chat views
    input,           \* the chat textarea
    conversationId,  \* AIChatContent's conversationId: undefined for null
    saves,           \* the suspended saveConversation calls
    stored,          \* the rows of ai_conversations written by this user
    chat,            \* the conversation on screen: counts the chats started
    historyNotes,    \* HistoryContent's notes
    conversations,   \* HistoryContent's conversations
    quizzes,         \* HistoryContent's quizzes
    selectedNote,    \* HistoryContent's selectedNote: undefined for null
    selectedConversation,
    selectedQuiz,
    tables           \* the rows of notes, ai_conversations and quiz_attempts in the backend

sessionVars == <<view, user, file, topic, questionCount, questions, loading, error,
                 showResults, currentSource, requests, toast, inserted, returnedEarly>>

mapVars == <<mapQ, shuffledOptions, loopI, swaps, draws, mapPc, mapResult>>

parseVars == <<text, jsonMatch, parsePc, parseResult>>

cardVars == <<notes, flashcards, flippedCards>>

chatVars == <<messages, input, conversationId, saves, stored, chat>>

historyVars == <<historyNotes, conversations, quizzes, selectedNote, selectedConversation,
                 selectedQuiz, tables>>

\* the state of the parts that are not the quiz session and not the map callback
pageVars == <<parseVars, cardVars, chatVars, historyVars>>

\* the state only the quiz views have
quizDataVars == <<file, topic, questionCount, questions, showResults, currentSource, inserted>>

quizVars == <<quizDataVars, returnedEarly>>

vars == <<sessionVars, mapVars, pageVars>>

-----------------------------------------------------------------------------
(* Program constants *)

\* options.length !== 4
OptionCount == 4

\* questionCount < 1
MinQuestionCount == 1

\* questionCount > 20
MaxQuestionCount == 20

\* useState(10), parseInt(e.target.value) || 10
DefaultQuestionCount == 10

(* Bounds of the model *)

\* option texts are drawn from NumTexts distinct strings
NumTexts == 4

\* a decoded element carries at most MaxOptions options
MaxOptions == 5

-----------------------------------------------------------------------------
(* JavaScript helpers *)

undefined == <<>>

Some(x) == <<x>>

\* arr[index] for a 0-based index: undefined outside the array
At(arr, index) ==
    IF index \in 0..(Len(arr) - 1) THEN Some(arr[index + 1]) ELSE undefined

\* Array.prototype.indexOf: first 0-based position strictly equal to value, or -1.
\* No array element is undefined (the array was decoded from JSON).
indexOf(arr, value) ==
    IF value = undefined \/ ~(\E k \in 1..Len(arr) : arr[k] = value[1])
    THEN -1
    ELSE (CHOOSE k \in 1..Len(arr) :
              /\ arr[k] = value[1]
              /\ \A m \in 1..(k - 1) : arr[m] # value[1]) - 1

\* mutant: the array is passed on whole
sliceNothing(arr, n) == arr

\* Array.prototype.slice(0, n) for n >= 0
slice(arr, n) == IF n >= Len(arr) THEN arr ELSE SubSeq(arr, 1, n)

\* the bag (multiset) of the elements of an array
BagOf(arr) ==
    [x \in {arr[k] : k \in 1..Len(arr)} |-> Cardinality({k \in 1..Len(arr) : arr[k] = x})]

-----------------------------------------------------------------------------
(* QuizContent.generateQuiz: the callback of quizQuestions.slice(..).map(..) *)

\* !q.options || q.options.length !== 4  (a missing options field is the empty array)
InvalidOptions(q) == Len(q.options) # OptionCount

\* typeof q.correctAnswer === 'number' ? q.correctAnswer : 0
correctAnswerIndex(q) ==
    IF q.correctAnswer # undefined THEN q.correctAnswer[1] ELSE 0

\* q.options[correctAnswerIndex]
correctAnswerText(q) == At(q.options, correctAnswerIndex(q))

\* mutant: a[i] = a[j]; a[j] = a[i], the first value lost
SwapOverwrite(a, i, j) == [a EXCEPT ![i + 1] = a[j + 1]]

\* [a[i], a[j]] = [a[j], a[i]]
Swap(a, i, j) == [a EXCEPT ![i + 1] = a[j + 1], ![j + 1] = a[i + 1]]

\* mutant: Math.floor(Math.random() * i), the element never stays in place
RandomBelowExcludingSelf(i) == 0..(i - 1)

\* Math.floor(Math.random() * (i + 1))
RandomBelow(i) == 0..i

\* one value of j for every pass i = n-1 .. 1 of the loop over an array of length n
RandomChoices(n) ==
    {js \in [1..(n - 1) -> 0..(n - 1)] : \A i \in 1..(n - 1) : js[i] \in RandomBelow(i)}

\* the loop "for (i = length - 1; i > 0; i--)" from pass i on, drawing js[i] in pass i
RECURSIVE ShuffleFrom(_, _, _)
ShuffleFrom(a, i, js) ==
    IF i > 0 THEN ShuffleFrom(Swap(a, i, js[i]), i - 1, js) ELSE a

FisherYates(options, js) == ShuffleFrom(options, Len(options) - 1, js)

\* mutant: the index the element came with is kept
ShuffledQuestionStaleIndex(q, shuffled) ==
    [question      |-> q.question,
     options       |-> shuffled,
     correctAnswer |-> Some(correctAnswerIndex(q))]

\* the object the callback returns
ShuffledQuestion(q, shuffled) ==
    [question      |-> q.question,
     options       |-> shuffled,
     correctAnswer |-> Some(indexOf(shuffled, correctAnswerText(q)))]

OptionsError == <<"Each question must have exactly 4 options">>

(* The callback, statement by statement *)

Texts == {ToString(n) : n \in 1..NumTexts}

OptionLists == UNION {[1..n -> Texts] : n \in (OptionCount - 1)..MaxOptions}

\* correctAnswer as decoded: absent, or an integer around the valid range
CorrectAnswers == {undefined} \cup {Some(n) : n \in -1..OptionCount}

DecodedElements ==
    [question : {"q"}, options : OptionLists, correctAnswer : CorrectAnswers]

NoElement == [question |-> "", options |-> <<>>, correctAnswer |-> undefined]

MapIdle ==
    /\ mapQ = NoElement
    /\ shuffledOptions = <<>>
    /\ loopI = 0
    /\ swaps = 0
    /\ draws = <<>>
    /\ mapPc = "idle"
    /\ mapResult = <<>>

MapValidate ==
    /\ mapPc = "validate"
    /\ IF InvalidOptions(mapQ)
       THEN /\ mapPc' = "thrown"
            /\ mapResult' = OptionsError
            /\ UNCHANGED <<shuffledOptions, loopI>>
       ELSE /\ mapPc' = "loop"
            /\ shuffledOptions' = mapQ.options
            /\ loopI' = Len(mapQ.options) - 1
            /\ UNCHANGED mapResult
    /\ UNCHANGED <<mapQ, swaps, draws, sessionVars, pageVars>>

ShuffleStep ==
    /\ mapPc = "loop"
    /\ loopI > 0
    /\ \E j \in RandomBelow(loopI) :
           /\ shuffledOptions' = Swap(shuffledOptions, loopI, j)
           /\ draws' = Append(draws, j)
    /\ loopI' = loopI - 1
    /\ swaps' = swaps + 1
    /\ UNCHANGED <<mapQ, mapPc, mapResult, sessionVars, pageVars>>

MapReturn ==
    /\ mapPc = "loop"
    /\ ~(loopI > 0)
    /\ mapResult' = <<ShuffledQuestion(mapQ, shuffledOptions)>>
    /\ mapPc' = "done"
    /\ UNCHANGED <<mapQ, shuffledOptions, loopI, swaps, draws, sessionVars, pageVars>>

-----------------------------------------------------------------------------
(* The quiz views: inputs *)

Views == {"QuizGenerator", "QuizContent"}

Sources == {"file", "topic"}

\* what the user can type into the topic textarea
TopicInputs == {"", "algebra"}

\* what the file input can deliver: [name, type]
FileInputs == {[name |-> "notes.pdf", type |-> "application/pdf"]}

\* what parseInt can return for the count input: an integer, or NaN (undefined)
CountInputs == {undefined, Some(1), Some(21)}

\* decoded elements of a generation response: the correct option first, as the
\* prompt of QuizContent asks; the distractors repeat a text, which keeps the
\* number of distinct shuffles of an element small (4 for QA, 1 for QB)
QA == [question |-> "2+2?", options |-> <<"4", "3", "3", "3">>, correctAnswer |-> Some(0)]

QB == [question |-> "6 or 6?", options |-> <<"6", "6", "6", "6">>, correctAnswer |-> Some(0)]

QShort == [question |-> "1+1?", options |-> <<"2", "3", "4">>, correctAnswer |-> Some(0)]

\* an element whose correctAnswer is no index of its options
QOut == [question |-> "7?", options |-> <<"7", "7", "7", "7">>, correctAnswer |-> Some(4)]

\* the arrays JSON.parse can return
DecodedArrays == {<<>>, <<QA>>, <<QA, QB>>, <<QA, QShort>>, <<QOut>>}

\* how the awaited file read and fetch can settle
Outcomes ==
    {[kind |-> "reader.onerror", value |-> <<>>],
     [kind |-> "data.error", value |-> <<>>],
     [kind |-> "no match", value |-> <<>>],
     [kind |-> "JSON.parse throws", value |-> <<>>]}
    \cup {[kind |-> "decoded", value |-> arr] : arr \in DecodedArrays}

-----------------------------------------------------------------------------
(* The quiz views: helpers *)

\* topic.trim(), input.trim(), notes.trim()
trim(t) == IF t = " " THEN "" ELSE IF t = " hi " THEN "hi" ELSE t

\* file.name.replace('.pdf', '')
StripPdf(name) == IF name = "notes.pdf" THEN "notes" ELSE name

\* parseInt(e.target.value) || 10
ParsedCountOrDefault(parsed) ==
    IF parsed = undefined \/ parsed = Some(0) THEN DefaultQuestionCount ELSE parsed[1]

\* mutant: only the lower limit is checked
InvalidCountLowOnly(count) == count < MinQuestionCount

\* questionCount < 1 || questionCount > 20
InvalidCount(count) == count < MinQuestionCount \/ count > MaxQuestionCount

\* mutant: the buttons look at their input only, not at the loading flag
GenerateDisabledIgnoringLoading(source) ==
    \/ source = "file" /\ file = undefined
    \/ source = "topic" /\ trim(topic) = ""

\* disabled={loading || !file} and disabled={loading || !topic.trim()}
GenerateDisabled(source) ==
    \/ loading
    \/ source = "file" /\ file = undefined
    \/ source = "topic" /\ trim(topic) = ""

\* a decoded element as it sits in the question list: no selectedAnswer yet
Loaded(q) ==
    [question       |-> q.question,
     options        |-> q.options,
     correctAnswer  |-> q.correctAnswer,
     selectedAnswer |-> undefined]

IsUnanswered(q) == q.selectedAnswer = undefined

IsCorrect(q) == q.selectedAnswer = q.correctAnswer

\* mutant: only the first question is looked at
UnansweredFirstOnly(qs) == SelectSeq(SubSeq(qs, 1, 1), IsUnanswered)

\* questions.filter((q) => q.selectedAnswer === undefined)
Unanswered(qs) == SelectSeq(qs, IsUnanswered)

IsAnswered(q) == q.selectedAnswer # undefined

\* mutant: every answered question counts as correct
ScoreCountsAnswered(qs) == Len(SelectSeq(qs, IsAnswered))

\* questions.filter((q) => q.selectedAnswer === q.correctAnswer).length
Score(qs) == Len(SelectSeq(qs, IsCorrect))

\* the number the results card renders
DisplayedScore == Score(questions)

\* {!showResults && <Button onClick={submitQuiz}>} inside {questions.length > 0 && ..}
SubmitShown == Len(questions) > 0 /\ ~showResults

\* mutant: the answers column holds the correct answers, not the selected ones
QuizAttemptCorrectAnswers ==
    [title            |-> IF currentSource = "file" /\ file # undefined
                          THEN StripPdf(file[1]) ELSE topic,
     questions        |-> questions,
     answers          |-> [k \in 1..Len(questions) |-> questions[k].correctAnswer],
     score            |-> Score(questions),
     total_questions  |-> Len(questions),
     source_type      |-> currentSource,
     source_file_name |-> IF currentSource = "file" /\ file # undefined
                          THEN file ELSE undefined]

\* the row submitQuiz passes to supabase.from('quiz_attempts').insert
QuizAttempt ==
    [title            |-> IF currentSource = "file" /\ file # undefined
                          THEN StripPdf(file[1]) ELSE topic,
     questions        |-> questions,
     answers          |-> [k \in 1..Len(questions) |-> questions[k].selectedAnswer],
     score            |-> Score(questions),
     total_questions  |-> Len(questions),
     source_type      |-> currentSource,
     source_file_name |-> IF currentSource = "file" /\ file # undefined
                          THEN file ELSE undefined]

IncompleteMessage(qs) ==
    <<"Please answer all", ToString(Len(qs)), "questions before submitting">>

\* what the catch block shows for each way the try block can throw
FailureMessage(kind) ==
    CASE kind = "reader.onerror"    -> <<"Failed to generate quiz">>
      [] kind = "data.error"        -> <<"data.error.message">>
      [] kind = "no match"          -> <<"Could not parse quiz from response">>
      [] kind = "JSON.parse throws" -> <<"SyntaxError">>
      [] kind = "options"           -> OptionsError

SessionInit ==
    /\ view \in Views
    /\ user \in (IF view = "QuizContent" THEN BOOLEAN ELSE {FALSE})
    /\ file = undefined
    /\ topic = ""
    /\ questionCount = DefaultQuestionCount
    /\ questions = <<>>
    /\ loading = FALSE
    /\ error = <<>>
    /\ showResults = FALSE
    /\ currentSource = "file"
    /\ requests = <<>>
    /\ toast = <<>>
    /\ inserted = undefined
    /\ returnedEarly = ""

-----------------------------------------------------------------------------
(* The quiz views: handlers *)

\* QuizContent shows messages in its error banner, QuizGenerator in a toast
Banner(message) == IF view = "QuizContent" THEN message ELSE error

Toast(title, description) ==
    IF view = "QuizGenerator" THEN <<title>> \o description ELSE <<>>

handleFileSelect(selectedFile) ==
    /\ IF selectedFile.type = "application/pdf"
       THEN /\ file' = Some(selectedFile.name)
            /\ error' = Banner(<<>>)
            /\ toast' = Toast("File Uploaded", <<selectedFile.name, "is ready for processing.">>)
       ELSE /\ toast' = <<>>
            /\ UNCHANGED <<file, error>>
    /\ inserted' = undefined
    /\ returnedEarly' = ""
    /\ UNCHANGED <<view, user, topic, questionCount, questions, loading, showResults,
                   currentSource, requests, mapVars, pageVars>>

setTopic(value) ==
    /\ topic' = value
    /\ toast' = <<>>
    /\ inserted' = undefined
    /\ returnedEarly' = ""
    /\ UNCHANGED <<view, user, file, questionCount, questions, loading, error, showResults,
                   currentSource, requests, mapVars, pageVars>>

setQuestionCount(parsed) ==
    /\ questionCount' = ParsedCountOrDefault(parsed)
    /\ toast' = <<>>
    /\ inserted' = undefined
    /\ returnedEarly' = ""
    /\ UNCHANGED <<view, user, file, topic, questions, loading, error, showResults,
                   currentSource, requests, mapVars, pageVars>>

\* what the suspended call keeps of the render it was made in
Closure(source) ==
    [source |-> source, questionCount |-> questionCount, showResults |-> showResults]

\* an early return of generateQuiz
Rejected(title, message) ==
    /\ error' = Banner(message)
    /\ toast' = Toast(title, message)
    /\ returnedEarly' = "generateQuiz"
    /\ UNCHANGED <<loading, showResults, requests>>

\* generateQuiz up to its first await; the click needs an enabled button
generateQuiz(source) ==
    /\ ~GenerateDisabled(source)
    /\ currentSource' = IF view = "QuizContent" THEN source ELSE currentSource
    /\ IF source = "file" /\ file = undefined
       THEN Rejected("No File Selected", <<"Please upload a PDF file first">>)
       ELSE IF source = "topic" /\ trim(topic) = ""
       THEN Rejected("No Topic Entered", <<"Please enter a topic for the quiz">>)
       ELSE IF InvalidCount(questionCount)
       THEN Rejected("Invalid Question Count", <<"Please enter a number between 1 and 20">>)
       ELSE /\ loading' = TRUE
            /\ error' = Banner(<<>>)
            /\ showResults' = FALSE
            /\ requests' = Append(requests, Closure(source))
            /\ toast' = <<>>
            /\ returnedEarly' = ""
    /\ inserted' = undefined
    /\ UNCHANGED <<view, user, file, topic, questionCount, questions, mapVars, pageVars>>

\* the message thrown inside the try block, <<>> when it runs to its end
Thrown(sliced, outcome) ==
    IF outcome.kind # "decoded" THEN FailureMessage(outcome.kind)
    ELSE IF view = "QuizContent" /\ \E k \in 1..Len(sliced) : InvalidOptions(sliced[k])
    THEN FailureMessage("options")
    ELSE <<>>

\* every object the map callback can return for q, over the draws of Math.random
ShuffleOutcomes(q) ==
    {ShuffledQuestion(q, FisherYates(q.options, js)) : js \in RandomChoices(Len(q.options))}

\* every array the map can return, element by element
RECURSIVE MapOutcomes(_)
MapOutcomes(sliced) ==
    IF sliced = <<>> THEN {<<>>}
    ELSE {<<Loaded(first)>> \o rest :
              first \in ShuffleOutcomes(Head(sliced)), rest \in MapOutcomes(Tail(sliced))}

\* the arrays that can be passed to setQuestions
NewQuestions(sliced) ==
    IF view = "QuizContent"
    THEN MapOutcomes(sliced)
    ELSE {[k \in 1..Len(sliced) |-> Loaded(sliced[k])]}

\* mutant: no finally block, the flag is left as it is
finallyLoadingSkipped == loading

\* finally { setLoading(false) } / finally { setIsGenerating(false) }
finallyLoading == FALSE

RemoveAt(seq, k) == SubSeq(seq, 1, k - 1) \o SubSeq(seq, k + 1, Len(seq))

\* generateQuiz from its await to the end of its finally block
generateQuizSettles(k, outcome) ==
    /\ k \in 1..Len(requests)
    /\ outcome.kind = "reader.onerror" => requests[k].source = "file"
    /\ LET sliced == slice(outcome.value, requests[k].questionCount)
           thrown == Thrown(sliced, outcome)
       IN  IF thrown # <<>>
           THEN /\ error' = Banner(thrown)
                /\ toast' = Toast("Generation Failed", thrown)
                /\ UNCHANGED questions
           ELSE /\ questions' \in NewQuestions(sliced)
                /\ toast' = Toast("Quiz Generated!",
                                  <<ToString(Len(outcome.value)), "questions are ready.">>)
                /\ UNCHANGED error
    /\ loading' = finallyLoading
    /\ requests' = RemoveAt(requests, k)
    /\ inserted' = undefined
    /\ returnedEarly' = ""
    /\ UNCHANGED <<view, user, file, topic, questionCount, showResults, currentSource,
                   mapVars, pageVars>>

\* mutant: the answer is written into every question
WithAnswerEverywhere(prev, questionIndex, answerIndex) ==
    [k \in 1..Len(prev) |-> [prev[k] EXCEPT !.selectedAnswer = Some(answerIndex)]]

\* prev.map((q, i) => i === questionIndex ? {...q, selectedAnswer: answerIndex} : q)
WithAnswer(prev, questionIndex, answerIndex) ==
    [k \in 1..Len(prev) |->
        IF k - 1 = questionIndex
        THEN [prev[k] EXCEPT !.selectedAnswer = Some(answerIndex)]
        ELSE prev[k]]

\* mutant: the "if (showResults) return" line is missing
AfterAnswerSelectUnguarded(prev, graded, questionIndex, answerIndex) ==
    WithAnswer(prev, questionIndex, answerIndex)

\* the question list handleAnswerSelect leaves behind
AfterAnswerSelect(prev, graded, questionIndex, answerIndex) ==
    IF graded THEN prev ELSE WithAnswer(prev, questionIndex, answerIndex)

handleAnswerSelect(questionIndex, answerIndex) ==
    /\ questionIndex \in 0..(Len(questions) - 1)
    /\ answerIndex \in 0..(Len(questions[questionIndex + 1].options) - 1)
    /\ questions' = AfterAnswerSelect(questions, showResults, questionIndex, answerIndex)
    /\ returnedEarly' = IF showResults THEN "handleAnswerSelect" ELSE ""
    /\ toast' = <<>>
    /\ inserted' = undefined
    /\ UNCHANGED <<view, user, file, topic, questionCount, loading, error, showResults,
                   currentSource, requests, mapVars, pageVars>>

\* the click needs the Submit Quiz button to be rendered
submitQuiz ==
    /\ SubmitShown
    /\ IF Len(Unanswered(questions)) > 0
       THEN /\ error' = Banner(IncompleteMessage(questions))
            /\ toast' = Toast("Incomplete Quiz", IncompleteMessage(questions))
            /\ inserted' = undefined
            /\ returnedEarly' = "submitQuiz"
            /\ UNCHANGED showResults
       ELSE /\ showResults' = TRUE
            /\ error' = Banner(<<>>)
            /\ toast' = Toast("Quiz Completed!",
                              <<"You scored", ToString(Score(questions)),
                                "out of", ToString(Len(questions))>>)
            /\ inserted' = IF view = "QuizContent" /\ user
                           THEN Some(QuizAttempt) ELSE undefined
            /\ returnedEarly' = ""
    /\ UNCHANGED <<view, user, file, topic, questionCount, questions, loading,
                   currentSource, requests, mapVars, pageVars>>

-----------------------------------------------------------------------------
(* Specifications *)

\* no extraction is running
ParseIdle ==
    /\ text = <<>>
    /\ jsonMatch = undefined
    /\ parsePc = "idle"
    /\ parseResult = <<>>

\* no flashcard view is mounted
CardsIdle ==
    /\ notes = ""
    /\ flashcards = <<>>
    /\ flippedCards = {}

\* no chat view is mounted
ChatIdle ==
    /\ messages = <<>>
    /\ input = ""
    /\ conversationId = undefined
    /\ saves = <<>>
    /\ stored = <<>>
    /\ chat = 0

\* no history view is mounted
HistoryIdle ==
    /\ historyNotes = <<>>
    /\ conversations = <<>>
    /\ quizzes = <<>>
    /\ selectedNote = undefined
    /\ selectedConversation = undefined
    /\ selectedQuiz = undefined
    /\ tables = <<>>

\* no quiz view is mounted
QuizIdle ==
    /\ file = undefined
    /\ topic = ""
    /\ questionCount = DefaultQuestionCount
    /\ questions = <<>>
    /\ showResults = FALSE
    /\ currentSource = "file"
    /\ inserted = undefined
    /\ returnedEarly = ""

\* the parts outside the quiz session are at rest
PagesIdle == ParseIdle /\ CardsIdle /\ ChatIdle /\ HistoryIdle

Init == SessionInit /\ MapIdle /\ PagesIdle

Next ==
    \/ \E selectedFile \in FileInputs : handleFileSelect(selectedFile)
    \/ \E value \in TopicInputs : setTopic(value)
    \/ \E parsed \in CountInputs : setQuestionCount(parsed)
    \/ \E source \in Sources : generateQuiz(source)
    \/ \E k \in 1..Len(requests), outcome \in Outcomes : generateQuizSettles(k, outcome)
    \/ \E questionIndex \in 0..(Len(questions) - 1), answerIndex \in 0..(MaxOptions - 1) :
           handleAnswerSelect(questionIndex, answerIndex)
    \/ submitQuiz

Spec == Init /\ [][Next]_vars

\* the awaited file read / fetch of a suspended generateQuiz call settles
AnySettle ==
    \E k \in 1..Len(requests), outcome \in Outcomes : generateQuizSettles(k, outcome)

\* the handlers that read or write loading and the requests in flight: the inputs
\* of a generation, its start and its end (answering and submitting do neither)
NextLive ==
    \/ \E selectedFile \in FileInputs : handleFileSelect(selectedFile)
    \/ \E value \in TopicInputs : setTopic(value)
    \/ \E parsed \in CountInputs : setQuestionCount(parsed)
    \/ \E source \in Sources : generateQuiz(source)
    \/ \E k \in 1..Len(requests), outcome \in Outcomes : generateQuizSettles(k, outcome)

\* generation in the quiz views when every request in flight resolves at some time
SpecLive == Init /\ [][NextLive]_vars /\ WF_vars(AnySettle)

\* the map callback of QuizContent.generateQuiz run on one decoded element
InitShuffle ==
    /\ view = "QuizContent"
    /\ user = FALSE
    /\ file = undefined
    /\ topic = ""
    /\ questionCount = DefaultQuestionCount
    /\ questions = <<>>
    /\ loading = TRUE
    /\ error = <<>>
    /\ showResults = FALSE
    /\ currentSource = "topic"
    /\ requests = <<>>
    /\ toast = <<>>
    /\ inserted = undefined
    /\ returnedEarly = ""
    /\ mapQ \in DecodedElements
    /\ shuffledOptions = <<>>
    /\ loopI = 0
    /\ swaps = 0
    /\ draws = <<>>
    /\ mapPc = "validate"
    /\ mapResult = <<>>
    /\ PagesIdle

NextShuffle == MapValidate \/ ShuffleStep \/ MapReturn

SpecShuffle == InitShuffle /\ [][NextShuffle]_vars

-----------------------------------------------------------------------------
(* Steps named by how they end *)

\* a settle whose try block threw: nothing is passed to setQuestions
GenerationFails ==
    \E k \in 1..Len(requests), outcome \in Outcomes :
        /\ generateQuizSettles(k, outcome)
        /\ Thrown(slice(outcome.value, requests[k].questionCount), outcome) # <<>>

\* a settle that reaches setQuestions
GenerationLoads ==
    \E k \in 1..Len(requests), outcome \in Outcomes :
        /\ generateQuizSettles(k, outcome)
        /\ Thrown(slice(outcome.value, requests[k].questionCount), outcome) = <<>>

\* a settle of a call that was made while the session was graded
FailsAfterGraded ==
    \E k \in 1..Len(requests), outcome \in Outcomes :
        /\ generateQuizSettles(k, outcome)
        /\ Thrown(slice(outcome.value, requests[k].questionCount), outcome) # <<>>
        /\ requests[k].showResults

AnySelect ==
    \E questionIndex \in 0..(Len(questions) - 1), answerIndex \in 0..(MaxOptions - 1) :
        handleAnswerSelect(questionIndex, answerIndex)

HasUnanswered(qs) == \E k \in 1..Len(qs) : qs[k].selectedAnswer = undefined

AllAnswered(qs) == \A k \in 1..Len(qs) : qs[k].selectedAnswer # undefined

\* the number of questions answered correctly, counted position by position
CorrectCount(qs) ==
    Cardinality({k \in 1..Len(qs) : qs[k].selectedAnswer = qs[k].correctAnswer})

-----------------------------------------------------------------------------
(* Properties of the shuffle, under SpecShuffle *)

\* the index the callback reads the correct text at: q.correctAnswer when the
\* element carries a number, index 0 otherwise
OriginalIndex(q) == IF q.correctAnswer = undefined THEN 0 ELSE q.correctAnswer[1]

\* C1: for every decoded element with exactly 4 options and every sequence of
\* draws, the option text at the returned correctAnswer index is the option text
\* that was at the original correctAnswer index (both undefined when the original
\* index lies outside the options).
C1_CorrectTextFollowsShuffle ==
    (mapPc = "done" /\ Len(mapQ.options) = OptionCount) =>
        At(mapResult[1].options, mapResult[1].correctAnswer[1])
            = At(mapQ.options, OriginalIndex(mapQ))

\* the callback has returned an element whose four distinct options were
\* reordered and whose correct option sits at another index than before
C1_Witness ==
    /\ mapPc = "done"
    /\ Cardinality({mapQ.options[k] : k \in 1..Len(mapQ.options)}) = OptionCount
    /\ mapQ.correctAnswer \in {Some(n) : n \in 0..(OptionCount - 1)}
    /\ mapResult[1].correctAnswer # mapQ.correctAnswer
    /\ mapResult[1].options # mapQ.options

\* C2: the shuffle is a permutation: after every pass of the loop, and in the
\* returned element, the multiset of option strings is that of the decoded element.
C2_ShuffleIsPermutation ==
    /\ mapPc = "loop" => BagOf(shuffledOptions) = BagOf(mapQ.options)
    /\ mapPc = "done" => BagOf(mapResult[1].options) = BagOf(mapQ.options)

\* the callback has returned after three swaps an element with a repeated option
\* text, in another order than decoded
C2_Witness ==
    /\ mapPc = "done"
    /\ swaps = OptionCount - 1
    /\ Cardinality({mapQ.options[k] : k \in 1..Len(mapQ.options)}) < OptionCount
    /\ mapResult[1].options # mapQ.options

-----------------------------------------------------------------------------
(* Properties of the quiz views, under Spec *)

\* C3: in every reachable state of either view, showResults is true only if every
\* question held has a selectedAnswer.
C3_GradedOnlyIfAllAnswered == showResults => AllAnswered(questions)

\* C4: submitQuiz on a list with an unanswered question fails: showResults stays
\* false, the questions are unchanged and no quiz_attempts row is handed over.
C4_SubmitWithUnansweredFails ==
    [][(HasUnanswered(questions) /\ submitQuiz) =>
            /\ ~showResults /\ ~showResults'
            /\ questions' = questions
            /\ inserted' = undefined]_vars

\* submitQuiz has just returned early on a list with one question answered and
\* another one not
C4_Witness ==
    /\ returnedEarly = "submitQuiz"
    /\ ~showResults
    /\ HasUnanswered(questions)
    /\ ~(\A k \in 1..Len(questions) : questions[k].selectedAnswer = undefined)
    /\ inserted = undefined

\* C5: graded is terminal: unless a new question list is loaded, a graded list
\* stays graded and none of its selectedAnswer values changes, also across a
\* later generation attempt that is started and fails.
C5_GradedIsTerminal ==
    [][showResults => ((showResults' /\ questions' = questions) \/ GenerationLoads)]_vars

\* C6: handleAnswerSelect called while showResults is true changes nothing:
\* questions and their selections, showResults and the score stay as they are.
C6_SelectWhileGradedIsNoOp ==
    [][\/ ~showResults
       \/ /\ questions' = questions
          /\ showResults'
          /\ CorrectCount(questions') = CorrectCount(questions)
       \/ ~AnySelect]_vars

\* handleAnswerSelect has just been called on a graded, non-empty list
C6_Witness ==
    /\ returnedEarly = "handleAnswerSelect"
    /\ showResults
    /\ Len(questions) > 0
    /\ AllAnswered(questions)

\* C7: once graded, the score shown and the score persisted are the number of
\* questions with selectedAnswer = correctAnswer, and the score shown does not
\* change for as long as the question list stays graded (until a generation loads
\* another list).
C7_ScoreFrozenWhileGraded ==
    [][/\ inserted' # undefined =>
              (showResults' /\ inserted'[1].score = CorrectCount(questions'))
       /\ showResults' => DisplayedScore' = CorrectCount(questions')
       /\ (showResults /\ showResults') =>
              (DisplayedScore' = DisplayedScore \/ GenerationLoads)]_vars

\* a two-question list has just been graded with one answer right and one wrong,
\* and its row handed to insert
C7_Witness ==
    /\ showResults
    /\ Len(questions) > 1
    /\ AllAnswered(questions)
    /\ CorrectCount(questions) = Len(questions) - 1
    /\ inserted # undefined

\* C8: whenever a generation succeeds and its questions are loaded, the session is
\* a fresh answering session: showResults is false and no question has a
\* selectedAnswer.
C8_LoadedSessionIsFresh ==
    [][\/ /\ ~showResults'
          /\ \A k \in 1..Len(questions') : questions'[k].selectedAnswer = undefined
       \/ ~GenerationLoads]_vars

\* C9: a generation attempt that fails leaves the prior session untouched: the
\* failing settle changes neither the question list nor showResults, and a session
\* that was graded when generateQuiz was called is graded after the failure.
C9_FailureLeavesSessionUntouched ==
    [][/\ (questions' = questions /\ showResults' = showResults) \/ ~GenerationFails
       /\ showResults' \/ ~FailsAfterGraded]_vars

\* C10: at most one generation request is in flight; loading is true exactly
\* while it is, and while it is neither generate button can start another.
C10_OneRequestInFlight ==
    /\ Len(requests) <= 1
    /\ loading <=> Len(requests) = 1
    /\ Len(requests) = 1 => \A source \in Sources : ~ENABLED generateQuiz(source)

\* a request is in flight while a file is selected and a topic is typed, so only
\* the loading flag keeps both buttons disabled
C10_Witness ==
    /\ Len(requests) = 1
    /\ loading
    /\ file # undefined
    /\ trim(topic) # ""

-----------------------------------------------------------------------------
(* Properties of parsing and loading, under Spec *)

\* a settle of request k with this outcome that reaches setQuestions
LoadsWith(k, outcome) ==
    /\ generateQuizSettles(k, outcome)
    /\ Thrown(slice(outcome.value, requests[k].questionCount), outcome) = <<>>

\* a decoded array of 1..20 elements with exactly 4 options each
ValidDecoded(arr) ==
    /\ Len(arr) \in MinQuestionCount..MaxQuestionCount
    /\ \A m \in 1..Len(arr) : Len(arr[m].options) = OptionCount

ValidIndices == {Some(n) : n \in 0..(OptionCount - 1)}

\* C11: for every decoded array of N questions (1 <= N <= 20) with exactly 4
\* options each, the settle loads exactly N questions, question m carrying the
\* option texts of element m and a correctAnswer in 0..3.
C11_ValidArrayLoadsAllQuestions ==
    [][\A k \in 1..Len(requests), outcome \in Outcomes :
           (outcome.kind = "decoded" /\ ValidDecoded(outcome.value)
                /\ generateQuizSettles(k, outcome)) =>
               /\ Len(questions') = Len(outcome.value)
               /\ \A m \in 1..Len(questions') :
                      /\ BagOf(questions'[m].options) = BagOf(outcome.value[m].options)
                      /\ questions'[m].correctAnswer \in ValidIndices]_vars

\* the response of a settle is malformed: no bracket pair, invalid JSON inside the
\* brackets, or an array with an element that has not exactly 4 options
Malformed(outcome) ==
    \/ outcome.kind \in {"no match", "JSON.parse throws"}
    \/ /\ outcome.kind = "decoded"
       /\ \E m \in 1..Len(outcome.value) : Len(outcome.value[m].options) # OptionCount

\* the parse error each kind of malformed response has to be reported with
ParseError(outcome) ==
    IF outcome.kind = "decoded" THEN OptionsError ELSE FailureMessage(outcome.kind)

\* the message the last step surfaced: the banner, or the toast without its title
Surfaced == IF view = "QuizContent" THEN error ELSE Tail(toast)

\* C12: every settle with a malformed response surfaces the parse error of its
\* kind and loads nothing: the question list is the one held before.
C12_MalformedResponseLoadsNothing ==
    [][\A k \in 1..Len(requests), outcome \in Outcomes :
           (Malformed(outcome) /\ generateQuizSettles(k, outcome)) =>
               /\ questions' = questions
               /\ Surfaced' = ParseError(outcome)]_vars

\* C13: a settle that loads questions loads at most as many as the question count
\* its request was made with, that count lies in 1..20, and the session never
\* holds more than 20 questions.  (A step that leaves the requests as they are is
\* no settle.)
C13_LoadedCountWithinRequest ==
    [][/\ Len(questions') <= MaxQuestionCount
       /\ \A k \in 1..Len(requests) :
              \/ /\ Len(questions') <= requests[k].questionCount
                 /\ ~InvalidCount(requests[k].questionCount)
              \/ requests' = requests
              \/ ~(\E outcome \in Outcomes : LoadsWith(k, outcome))]_vars

\* a request made for one question has settled with a longer array, of which one
\* question was loaded
C13_Witness ==
    /\ Len(questions) = 1
    /\ questionCount = 1
    /\ toast = <<"Quiz Generated!", "2", "questions are ready.">>

-----------------------------------------------------------------------------
(* Properties of submitting and of the count limits, under Spec *)

\* C14: QuizContent hands a quiz_attempts row to insert only in the step that
\* makes the session graded, and in that row score is the number of questions
\* with selectedAnswer = correctAnswer, total_questions is the number of
\* questions and answers[i] is the selectedAnswer of question i.
C14_RecordMatchesGradedSession ==
    [][\/ inserted' = undefined
       \/ /\ view = "QuizContent"
          /\ ~showResults /\ showResults'
          /\ inserted'[1].score = CorrectCount(questions')
          /\ inserted'[1].total_questions = Len(questions')
          /\ Len(inserted'[1].answers) = Len(questions')
          /\ \A i \in 1..Len(questions') :
                 inserted'[1].answers[i] = questions'[i].selectedAnswer]_vars

\* QuizContent has just graded a two-question session with one answer right and
\* one wrong and handed over its row
C14_Witness ==
    /\ view = "QuizContent"
    /\ inserted # undefined
    /\ showResults
    /\ inserted[1].total_questions = 2
    /\ inserted[1].score = 1
    /\ \E i \in 1..2 : inserted[1].answers[i] # questions[i].correctAnswer

AnyGenerate == \E source \in Sources : generateQuiz(source)

CountInRange == questionCount \in MinQuestionCount..MaxQuestionCount

\* C15: a generateQuiz call made while the question count is outside 1..20 is
\* rejected before any request is started: loading is and stays false, no request
\* is added, and the question list and showResults are unchanged.
C15_InvalidCountRejected ==
    [][\/ CountInRange
       \/ /\ ~loading /\ ~loading'
          /\ requests' = requests
          /\ questions' = questions
          /\ showResults' = showResults
       \/ ~AnyGenerate]_vars

\* generateQuiz has just refused a count above 20 on a graded session, which is
\* still there and still graded
C15_Witness ==
    /\ returnedEarly = "generateQuiz"
    /\ questionCount > MaxQuestionCount
    /\ Surfaced = <<"Please enter a number between 1 and 20">>
    /\ showResults
    /\ Len(questions) > 0
    /\ ~loading
    /\ requests = <<>>

-----------------------------------------------------------------------------
(* Properties of the questions held, under Spec *)

\* C16: in every reachable state of either view, every question held has exactly
\* 4 options.
C16_EveryQuestionHasFourOptions ==
    \A k \in 1..Len(questions) : Len(questions[k].options) = OptionCount

\* C17: in every reachable state of either view, the correctAnswer of every
\* question held is an index of its options, whatever the response carried.
C17_CorrectAnswerIsValidIndex ==
    \A k \in 1..Len(questions) :
        questions[k].correctAnswer
            \in {Some(n) : n \in 0..(Len(questions[k].options) - 1)}

-----------------------------------------------------------------------------
(* The shuffle and repeated option texts, under SpecShuffle *)

\* the position of the option that starts at pos, after the passes p, p+1, .. of
\* the loop over n options: pass p swaps the positions n - p and ds[p]
RECURSIVE MovedTo(_, _, _, _)
MovedTo(pos, p, ds, n) ==
    IF p > Len(ds) THEN pos
    ELSE MovedTo(IF pos = n - p THEN ds[p] ELSE IF pos = ds[p] THEN n - p ELSE pos,
                 p + 1, ds, n)

HasRepeatedText(options) ==
    Cardinality({options[k] : k \in 1..Len(options)}) < Len(options)

\* C18: for an element with 4 options of which two are textually identical, the
\* returned correctAnswer is the position the originally correct option (the one
\* at the original index) was moved to by the swaps.
C18_CorrectnessFollowsPermutation ==
    (/\ mapPc = "done"
     /\ Len(mapQ.options) = OptionCount
     /\ OriginalIndex(mapQ) \in 0..(OptionCount - 1)
     /\ HasRepeatedText(mapQ.options)) =>
        mapResult[1].correctAnswer[1]
            = MovedTo(OriginalIndex(mapQ), 1, draws, OptionCount)

-----------------------------------------------------------------------------
(* Properties of answering, under Spec *)

\* C19: while showResults is false, handleAnswerSelect(q, a) sets selectedAnswer
\* of question q to a, whatever it was before, and leaves every other question,
\* the text, options and correctAnswer of question q, the length of the list and
\* showResults unchanged.
C19_SelectSetsOneAnswer ==
    [][\A questionIndex \in 0..(Len(questions) - 1), answerIndex \in 0..(MaxOptions - 1) :
           \/ showResults
           \/ /\ showResults' = showResults
              /\ Len(questions') = Len(questions)
              /\ questions'[questionIndex + 1]
                     = [questions[questionIndex + 1] EXCEPT !.selectedAnswer = Some(answerIndex)]
              /\ \A k \in 1..Len(questions) :
                     k # questionIndex + 1 => questions'[k] = questions[k]
           \/ ~handleAnswerSelect(questionIndex, answerIndex)]_vars

\* in an ungraded two-question session the last step selected an answer other
\* than the first option for the first question and left the second unanswered
C19_Witness ==
    /\ ~showResults
    /\ returnedEarly = ""
    /\ Len(questions) = 2
    /\ questions[1].selectedAnswer \in {Some(n) : n \in 1..(OptionCount - 1)}
    /\ questions[2].selectedAnswer = undefined
    /\ toast = <<>>
    /\ ~loading

\* C20: when submitQuiz is refused for unanswered questions, the message surfaced
\* carries the number of unanswered questions and showResults stays false.
C20_IncompleteErrorNamesUnanswered ==
    [][(HasUnanswered(questions) /\ submitQuiz) =>
           /\ ~showResults'
           /\ \E t \in 1..Len(Surfaced') :
                  Surfaced'[t] = ToString(Len(Unanswered(questions)))]_vars

-----------------------------------------------------------------------------
(* The loading flag, under SpecLive *)

\* C21: loading is true for as long as a generation request is in flight; the step
\* in which the request resolves, whatever the outcome, resets loading to false;
\* no other step does, so a request that never resolves leaves loading true; and
\* when requests do resolve, loading is eventually false again.
C21_LoadingUntilResolved ==
    /\ [](Len(requests) > 0 => loading)
    /\ [][requests' = requests \/ Len(requests') > Len(requests) \/ ~loading']_vars
    /\ [][(loading /\ ~loading') => AnySettle]_vars
    /\ (loading ~> ~loading)

\* a request of QuizContent has resolved with a response that holds no array, and
\* loading is false again
C21_Witness ==
    /\ view = "QuizContent"
    /\ error = FailureMessage("no match")
    /\ ~loading
    /\ requests = <<>>

-----------------------------------------------------------------------------
(* The extraction of the JSON array from the response text                  *)
(*   const jsonMatch = text.match(/\[[\s\S]*\]/); JSON.parse(jsonMatch[0])   *)
(* A text is a sequence of tokens: the two brackets, the comma, "q" for the  *)
(* JSON text of one question object and "x" for anything that is not JSON.   *)

\* the length of the longest response text
MaxTextLen == 5

Tokens == {"[", "]", ",", "q", "x"}

ResponseTexts == UNION {[1..n -> Tokens] : n \in 0..MaxTextLen}

\* the position of the first "[" of t, 0 when there is none
FirstOpen(t) ==
    IF \E k \in 1..Len(t) : t[k] = "["
    THEN CHOOSE k \in 1..Len(t) : t[k] = "[" /\ \A m \in 1..(k - 1) : t[m] # "["
    ELSE 0

\* mutant: a lazy quantifier, the match ends at the first "]" after the first "["
FirstCloseAfterOpen(t) ==
    IF \E k \in (FirstOpen(t) + 1)..Len(t) : t[k] = "]"
    THEN CHOOSE k \in (FirstOpen(t) + 1)..Len(t) :
             t[k] = "]" /\ \A m \in (FirstOpen(t) + 1)..(k - 1) : t[m] # "]"
    ELSE 0

\* the position of the last "]" of t, 0 when there is none: [\s\S]* is greedy
LastClose(t) ==
    IF \E k \in 1..Len(t) : t[k] = "]"
    THEN CHOOSE k \in 1..Len(t) : t[k] = "]" /\ \A m \in (k + 1)..Len(t) : t[m] # "]"
    ELSE 0

\* text.match(/\[[\s\S]*\]/): the matched substring, undefined for null
match(t) ==
    IF FirstOpen(t) > 0 /\ LastClose(t) > FirstOpen(t)
    THEN Some(SubSeq(t, FirstOpen(t), LastClose(t)))
    ELSE undefined

\* the position of the last token of the JSON value that starts at position p of
\* s, 0 when no value starts there; ListEnd is the same for the rest of an array
\* whose next element starts at p
RECURSIVE ValueEnd(_, _), ListEnd(_, _)
ValueEnd(s, p) ==
    IF p > Len(s) THEN 0
    ELSE IF s[p] = "q" THEN p
    ELSE IF s[p] = "[" THEN (IF p < Len(s) /\ s[p + 1] = "]" THEN p + 1 ELSE ListEnd(s, p + 1))
    ELSE 0

ListEnd(s, p) ==
    LET e == ValueEnd(s, p)
    IN  IF e = 0 \/ e >= Len(s) THEN 0
        ELSE IF s[e + 1] = "]" THEN e + 1
        ELSE IF s[e + 1] = "," THEN ListEnd(s, e + 2)
        ELSE 0

\* the texts of the elements of the array text s, from position p on
RECURSIVE ElementsFrom(_, _)
ElementsFrom(s, p) ==
    IF s[p] = "]" THEN <<>>
    ELSE LET e == ValueEnd(s, p)
         IN  <<SubSeq(s, p, e)>> \o (IF s[e + 1] = "," THEN ElementsFrom(s, e + 2) ELSE <<>>)

\* JSON.parse(s) for a text s that starts with "[": the decoded array, each element
\* given by its text, or undefined when JSON.parse throws a SyntaxError
JSONparse(s) ==
    IF Len(s) > 0 /\ ValueEnd(s, 1) = Len(s) THEN Some(ElementsFrom(s, 2)) ELSE undefined

\* the quiz session as it is while generateQuiz runs its try block
SessionInTry ==
    /\ view \in Views
    /\ user = FALSE
    /\ file = undefined
    /\ topic = "algebra"
    /\ questionCount = DefaultQuestionCount
    /\ questions = <<>>
    /\ loading = TRUE
    /\ error = <<>>
    /\ showResults = FALSE
    /\ currentSource = "file"
    /\ requests = <<>>
    /\ toast = <<>>
    /\ inserted = undefined
    /\ returnedEarly = ""

InitParse ==
    /\ SessionInTry
    /\ MapIdle
    /\ text \in ResponseTexts
    /\ jsonMatch = undefined
    /\ parsePc = "match"
    /\ parseResult = <<>>
    /\ CardsIdle
    /\ ChatIdle
    /\ HistoryIdle

\* const jsonMatch = text.match(..); if (!jsonMatch) throw new Error(..)
Match ==
    /\ parsePc = "match"
    /\ jsonMatch' = match(text)
    /\ IF match(text) = undefined
       THEN /\ parsePc' = "thrown"
            /\ parseResult' = FailureMessage("no match")
       ELSE /\ parsePc' = "parse"
            /\ UNCHANGED parseResult
    /\ UNCHANGED <<text, sessionVars, mapVars, cardVars, chatVars, historyVars>>

\* const quizQuestions = JSON.parse(jsonMatch[0])
Decode ==
    /\ parsePc = "parse"
    /\ IF JSONparse(jsonMatch[1]) = undefined
       THEN /\ parsePc' = "thrown"
            /\ parseResult' = FailureMessage("JSON.parse throws")
       ELSE /\ parsePc' = "decoded"
            /\ parseResult' = JSONparse(jsonMatch[1])[1]
    /\ UNCHANGED <<text, jsonMatch, sessionVars, mapVars, cardVars, chatVars, historyVars>>

NextParse == Match \/ Decode

SpecParse == InitParse /\ [][NextParse]_vars

(* Properties of the extraction, under SpecParse *)

IsBracket(c) == c = "[" \/ c = "]"

\* t holds a "[" with a "]" somewhere after it
HasBracketPair(t) ==
    \E a \in 1..Len(t), b \in 1..Len(t) : a < b /\ t[a] = "[" /\ t[b] = "]"

\* the substring of t from its first "[" to its last "]"
FirstToLast(t) ==
    LET a == CHOOSE k \in 1..Len(t) : t[k] = "[" /\ \A m \in 1..(k - 1) : t[m] # "["
        b == CHOOSE k \in 1..Len(t) : t[k] = "]" /\ \A m \in (k + 1)..Len(t) : t[m] # "]"
    IN  SubSeq(t, a, b)

\* t consists of a JSON array (positions c..d), one bracketed fragment without
\* inner brackets before or after it (positions a..b), and bracket-free text
HasExtraFragment(t) ==
    \E a \in 1..Len(t), b \in 1..Len(t), c \in 1..Len(t), d \in 1..Len(t) :
        /\ a < b /\ c < d /\ (b < c \/ d < a)
        /\ t[a] = "[" /\ t[b] = "]"
        /\ \A k \in (a + 1)..(b - 1) : ~IsBracket(t[k])
        /\ t[c] = "[" /\ JSONparse(SubSeq(t, c, d)) # undefined
        /\ \A k \in 1..Len(t) : IsBracket(t[k]) => (k \in a..b \/ k \in c..d)

\* C22: the extraction takes the substring from the first "[" to the last "]" of
\* the text and decodes exactly that substring; a text with no "[" followed by a
\* "]" ends in the no-array error; a text with a bracketed fragment before or
\* after the JSON array ends in a decode failure, not in the array.
C22_MatchIsFirstToLastBracket ==
    /\ (parsePc # "match" /\ HasBracketPair(text)) => jsonMatch = Some(FirstToLast(text))
    /\ (parsePc # "match" /\ ~HasBracketPair(text)) =>
           /\ jsonMatch = undefined
           /\ parsePc = "thrown"
           /\ parseResult = FailureMessage("no match")
    /\ parsePc = "decoded" => Some(parseResult) = JSONparse(FirstToLast(text))
    /\ (parsePc = "thrown" /\ HasBracketPair(text)) =>
           /\ JSONparse(FirstToLast(text)) = undefined
           /\ parseResult = FailureMessage("JSON.parse throws")
    /\ (parsePc \in {"thrown", "decoded"} /\ HasExtraFragment(text)) =>
           /\ parsePc = "thrown"
           /\ parseResult = FailureMessage("JSON.parse throws")

\* the extraction of a text with a fragment before the array has ended in a
\* decode failure of the substring that spans both
C22_Witness ==
    /\ parsePc = "thrown"
    /\ HasExtraFragment(text)
    /\ text[Len(text)] = "]"
    /\ Len(jsonMatch[1]) = MaxTextLen
    /\ parseResult = FailureMessage("JSON.parse throws")

-----------------------------------------------------------------------------
(* The orderings of the shuffle, under SpecShuffle *)

HasDistinctOptions(q) ==
    /\ Len(q.options) = OptionCount
    /\ Cardinality({q.options[k] : k \in 1..Len(q.options)}) = OptionCount

\* the orderings the loop can leave the options in
Orderings(options) ==
    {FisherYates(options, js) : js \in RandomChoices(Len(options))}

\* every ordering of the options
AllOrderings(options) ==
    {[k \in 1..Len(options) |-> options[p[k]]] :
        p \in {f \in [1..Len(options) -> 1..Len(options)] :
                  \A a \in 1..Len(options), b \in 1..Len(options) : f[a] = f[b] => a = b}}

\* the draws of the loop, in order, as the choice of j for every i
ChoicesOf(ds) == [i \in 1..Len(ds) |-> ds[Len(ds) + 1 - i]]

\* C23: for an element with four distinct options the loop (i from 3 down to 1, j
\* in 0..i) has 24 sequences of choices of j, they produce the 24 orderings of the
\* options, each ordering by exactly one sequence, and the loop always ends after
\* 3 swaps.
C23_ShuffleReachesAllOrderings ==
    /\ mapPc = "loop" => swaps + loopI = Len(mapQ.options) - 1
    /\ (mapPc = "validate" /\ HasDistinctOptions(mapQ)) =>
           /\ Cardinality(RandomChoices(OptionCount)) = 24
           /\ Cardinality(Orderings(mapQ.options)) = 24
           /\ Orderings(mapQ.options) = AllOrderings(mapQ.options)
    /\ (mapPc = "done" /\ HasDistinctOptions(mapQ)) =>
           /\ swaps = OptionCount - 1
           /\ loopI = 0
           /\ Len(draws) = OptionCount - 1
           /\ ChoicesOf(draws) \in RandomChoices(OptionCount)
           /\ mapResult[1].options = FisherYates(mapQ.options, ChoicesOf(draws))
           /\ \A js \in RandomChoices(OptionCount) :
                  FisherYates(mapQ.options, js) = mapResult[1].options => js = ChoicesOf(draws)

\* the loop has ended after three swaps with four distinct options in reverse order
C23_Witness ==
    /\ mapPc = "done"
    /\ HasDistinctOptions(mapQ)
    /\ swaps = OptionCount - 1
    /\ \A k \in 1..OptionCount : mapResult[1].options[k] = mapQ.options[OptionCount + 1 - k]

-----------------------------------------------------------------------------
(* The persisted source, under Spec *)

\* C24: in QuizContent the source_type written with a quiz attempt is the source
\* of the request that produced the question list being graded: a load leaves
\* currentSource at the source of its request, no other step changes currentSource
\* while a question list is held (not a generateQuiz call that is rejected or
\* fails either), and the row carries currentSource.
C24_SourceTypeIsSourceOfGradedList ==
    [][view = "QuizContent" =>
           /\ \A k \in 1..Len(requests) :
                  \/ currentSource' = requests[k].source
                  \/ requests' = requests
                  \/ ~(\E outcome \in Outcomes : LoadsWith(k, outcome))
           /\ currentSource' = currentSource \/ Len(questions) = 0 \/ GenerationLoads
           /\ inserted' # undefined => inserted'[1].source_type = currentSource']_vars

-----------------------------------------------------------------------------
(* The flashcard views                                                       *)
(*   FlashcardContent    (src/src/components/dashboard/FlashcardContent.tsx) *)
(*   FlashcardGenerator  (src/src/pages/FlashcardGenerator.tsx)              *)

\* the longest array of flashcards a response decodes to
MaxCards == 3

CardViews == {"FlashcardContent", "FlashcardGenerator"}

NotesInputs == {"", "osmosis"}

Flashcard(n) == [question |-> "Q" \o ToString(n), answer |-> "A" \o ToString(n)]

\* the arrays JSON.parse can return
CardArrays == {[n \in 1..len |-> Flashcard(n)] : len \in 0..MaxCards}

\* how the awaited call can settle
CardOutcomes ==
    {[kind |-> "data.error", value |-> <<>>],
     [kind |-> "no match", value |-> <<>>],
     [kind |-> "JSON.parse throws", value |-> <<>>]}
    \cup {[kind |-> "decoded", value |-> arr] : arr \in CardArrays}

\* what the catch block shows for each way the try block can throw
CardFailureMessage(kind) ==
    CASE kind = "data.error"        -> <<"data.error.message">>
      [] kind = "no match"          -> <<"Could not parse flashcards from response">>
      [] kind = "JSON.parse throws" -> <<"SyntaxError">>

\* FlashcardContent shows messages in its error banner, FlashcardGenerator in a toast
CardBanner(message) == IF view = "FlashcardContent" THEN message ELSE error

CardToast(title, description) ==
    IF view = "FlashcardGenerator" THEN <<title>> \o description ELSE <<>>

\* mutant: the index is added, never deleted
ToggleAddOnly(set, index) == set \cup {index}

\* new Set(prev) with index deleted if it has it, added if not
ToggleIn(set, index) == IF index \in set THEN set \ {index} ELSE set \cup {index}

InitCards ==
    /\ view \in CardViews
    /\ user = FALSE
    /\ loading = FALSE
    /\ error = <<>>
    /\ requests = <<>>
    /\ toast = <<>>
    /\ notes = ""
    /\ flashcards = <<>>
    /\ flippedCards = {}
    /\ QuizIdle /\ MapIdle /\ ParseIdle /\ ChatIdle /\ HistoryIdle

setNotes(value) ==
    /\ notes' = value
    /\ toast' = <<>>
    /\ UNCHANGED <<view, user, loading, error, requests, flashcards, flippedCards,
                   quizVars, mapVars, parseVars, chatVars, historyVars>>

\* generateFlashcards up to its await; the button is disabled while loading
generateFlashcards ==
    /\ ~loading
    /\ IF trim(notes) = ""
       THEN /\ error' = CardBanner(<<"Please enter some study notes first">>)
            /\ toast' = CardToast("Input Required",
                                  <<"Please enter some notes to generate flashcards.">>)
            /\ UNCHANGED <<loading, requests>>
       ELSE /\ loading' = TRUE
            /\ error' = CardBanner(<<>>)
            /\ requests' = Append(requests, [notes |-> notes])
            /\ toast' = <<>>
    /\ UNCHANGED <<view, user, notes, flashcards, flippedCards,
                   quizVars, mapVars, parseVars, chatVars, historyVars>>

\* generateFlashcards from its await to the end of its finally block
generateFlashcardsSettles(k, outcome) ==
    /\ k \in 1..Len(requests)
    /\ IF outcome.kind # "decoded"
       THEN /\ error' = CardBanner(CardFailureMessage(outcome.kind))
            /\ toast' = CardToast("Generation Failed", CardFailureMessage(outcome.kind))
            /\ UNCHANGED <<flashcards, flippedCards>>
       ELSE /\ flashcards' = outcome.value
            /\ flippedCards' = {}
            /\ toast' = CardToast("Flashcards Generated!",
                                  <<"Created", ToString(Len(outcome.value)),
                                    "flashcards from your notes.">>)
            /\ UNCHANGED error
    /\ loading' = FALSE
    /\ requests' = RemoveAt(requests, k)
    /\ UNCHANGED <<view, user, notes, quizVars, mapVars, parseVars, chatVars, historyVars>>

\* toggleFlip (FlashcardContent) / toggleCard (FlashcardGenerator): a click on a
\* rendered card
toggleFlip(index) ==
    /\ index \in 0..(Len(flashcards) - 1)
    /\ flippedCards' = ToggleIn(flippedCards, index)
    /\ toast' = <<>>
    /\ UNCHANGED <<view, user, loading, error, requests, notes, flashcards,
                   quizVars, mapVars, parseVars, chatVars, historyVars>>

NextCards ==
    \/ \E value \in NotesInputs : setNotes(value)
    \/ generateFlashcards
    \/ \E k \in 1..Len(requests), outcome \in CardOutcomes :
           generateFlashcardsSettles(k, outcome)
    \/ \E index \in 0..(MaxCards - 1) : toggleFlip(index)

SpecCards == InitCards /\ [][NextCards]_vars

(* Properties of the flashcard views, under SpecCards *)

\* C29: in both flashcard views every index in flippedCards is an index of the
\* flashcards list; a generation that succeeds loads its cards and empties
\* flippedCards; one that fails leaves flashcards and flippedCards as they were;
\* a toggle adds the index if it is absent and removes it if it is present, so
\* that toggling the same card twice restores flippedCards.
C29_FlippedCardsAreValid ==
    /\ [](flippedCards \subseteq 0..(Len(flashcards) - 1))
    /\ [][\A k \in 1..Len(requests), outcome \in CardOutcomes :
              generateFlashcardsSettles(k, outcome) =>
                  IF outcome.kind = "decoded"
                  THEN flashcards' = outcome.value /\ flippedCards' = {}
                  ELSE flashcards' = flashcards /\ flippedCards' = flippedCards]_vars
    /\ [][\A index \in 0..(MaxCards - 1) :
              toggleFlip(index) =>
                  /\ flippedCards' = (flippedCards \ {index}) \cup ({index} \ flippedCards)
                  /\ (flippedCards' \ {index}) \cup ({index} \ flippedCards') = flippedCards
                  /\ flashcards' = flashcards]_vars

\* FlashcardContent holds three cards with the first and the last flipped, after a
\* generation that failed for want of an array
C29_Witness ==
    /\ view = "FlashcardContent"
    /\ Len(flashcards) = MaxCards
    /\ flippedCards = {0, MaxCards - 1}
    /\ error = CardFailureMessage("no match")
    /\ ~loading

-----------------------------------------------------------------------------
(* The chat views                                                            *)
(*   AIChatContent  (src/src/hooks/useGeminiChat.ts, from line 44)           *)
(*   AIChat         (src/src/pages/AIChat.tsx)                               *)

\* the longest message list of the AIChat page: the greeting and three exchanges
MaxMessages == 7

\* the longest message list AIChatContent sends from or saves: the greeting and
\* one exchange
MaxContentMessages == 3

\* the number of times startNewChat is followed
MaxChats == 1

\* the number of rows of ai_conversations
MaxStored == 1

\* the number of saveConversation calls in flight
MaxSaves == 1

ChatViews == {"AIChatContent", "AIChat"}

\* what the user can type into the textarea
ChatInputs == {"", " ", " hi ", "why"}

\* the longest list a message can be sent from
MessageCap == IF view = "AIChat" THEN MaxMessages ELSE MaxContentMessages

\* the message both views start with (each with its own text)
Greeting ==
    [role |-> "assistant",
     content |-> IF view = "AIChatContent" THEN "Hey! I'm your AI study buddy"
                 ELSE "Hello! I'm your AI study assistant"]

UserMessage(content) == [role |-> "user", content |-> content]

AssistantMessage(content) == [role |-> "assistant", content |-> content]

SorryMessage == AssistantMessage("Sorry, I encountered an error. Please try again.")

\* how the awaited call of sendMessage can settle: with a response, with an error
\* (data.error / the invoke error), or (AIChatContent) with no text in the response
SendOutcomes == {"answered", "error", "no response"}

\* how the awaited call of saveConversation can settle
SaveOutcomes == {"saved", "throws"}

\* mutant: the list is left as it is
sliceNone(prev) == prev

\* prev.slice(0, -1)
sliceLast(prev) == SubSeq(prev, 1, Len(prev) - 1)

\* messages.find(m => m.role === 'user')?.content.slice(0, 50) || 'Untitled Conversation'
Title(msgs) ==
    IF \E k \in 1..Len(msgs) : msgs[k].role = "user"
    THEN msgs[CHOOSE k \in 1..Len(msgs) :
                  msgs[k].role = "user" /\ \A n \in 1..(k - 1) : msgs[n].role # "user"].content
    ELSE "Untitled Conversation"

ChatMounted ==
    /\ user \in (IF view = "AIChatContent" THEN BOOLEAN ELSE {FALSE})
    /\ loading = FALSE
    /\ error = <<>>
    /\ requests = <<>>
    /\ toast = <<>>
    /\ messages = <<Greeting>>
    /\ input = ""
    /\ conversationId = undefined
    /\ saves = <<>>
    /\ stored = <<>>
    /\ chat = 0
    /\ QuizIdle /\ MapIdle /\ ParseIdle /\ CardsIdle /\ HistoryIdle

InitChat == view = "AIChatContent" /\ ChatMounted

InitAIChat == view = "AIChat" /\ ChatMounted

\* onChange of the textarea, which is disabled while isLoading
setInput(value) ==
    /\ ~loading
    /\ input' = value
    /\ toast' = <<>>
    /\ returnedEarly' = ""
    /\ UNCHANGED <<view, user, loading, error, requests, messages, conversationId, saves,
                   stored, chat, quizDataVars, mapVars, parseVars, cardVars, historyVars>>

\* sendMessage up to its await
sendMessage ==
    /\ Len(messages) < MessageCap
    /\ IF trim(input) = "" \/ loading
       THEN /\ returnedEarly' = "sendMessage"
            /\ UNCHANGED <<input, messages, loading, requests>>
       ELSE /\ input' = ""
            /\ messages' = Append(messages, UserMessage(trim(input)))
            /\ loading' = TRUE
            /\ requests' = Append(requests, [userMessage |-> trim(input),
                                              messages    |-> messages])
            /\ returnedEarly' = ""
    /\ toast' = <<>>
    /\ UNCHANGED <<view, user, error, conversationId, saves, stored, chat,
                   quizDataVars, mapVars, parseVars, cardVars, historyVars>>

\* sendMessage from its await to the end of its finally block
sendMessageSettles(k, outcome) ==
    /\ k \in 1..Len(requests)
    /\ outcome = "no response" => view = "AIChatContent"
    /\ IF outcome = "answered"
       THEN /\ messages' = Append(messages, AssistantMessage("answer"))
            /\ toast' = <<>>
            /\ UNCHANGED input
       ELSE IF view = "AIChatContent"
       THEN /\ messages' = Append(messages, SorryMessage)
            /\ toast' = <<"Error", outcome>>
            /\ UNCHANGED input
       ELSE /\ messages' = sliceLast(messages)
            /\ input' = requests[k].userMessage
            /\ toast' = <<"Error", "Failed to get AI response. Please try again.">>
    /\ loading' = FALSE
    /\ requests' = RemoveAt(requests, k)
    /\ returnedEarly' = ""
    /\ UNCHANGED <<view, user, error, conversationId, saves, stored, chat,
                   quizDataVars, mapVars, parseVars, cardVars, historyVars>>

\* AIChatContent.startNewChat
startNewChat ==
    /\ view = "AIChatContent"
    /\ chat < MaxChats
    /\ messages' = <<Greeting>>
    /\ conversationId' = undefined
    /\ input' = ""
    /\ toast' = <<"New Chat Started", "Start a fresh conversation!">>
    /\ chat' = chat + 1
    /\ returnedEarly' = ""
    /\ UNCHANGED <<view, user, loading, error, requests, saves, stored,
                   quizDataVars, mapVars, parseVars, cardVars, historyVars>>

\* the effect that runs when the loadedConversation prop is set to a stored row
loadConversation(id) ==
    /\ view = "AIChatContent"
    /\ id \in 1..Len(stored)
    /\ messages' = stored[id].messages
    /\ conversationId' = Some(id)
    /\ chat' = stored[id].chat
    /\ toast' = <<>>
    /\ returnedEarly' = ""
    /\ UNCHANGED <<view, user, loading, error, requests, input, saves, stored,
                   quizDataVars, mapVars, parseVars, cardVars, historyVars>>

\* AIChatContent.saveConversation up to its await; the button is disabled while
\* there is nothing but the greeting
saveConversation ==
    /\ view = "AIChatContent"
    /\ ~(Len(messages) <= 1)
    /\ Len(messages) <= MaxContentMessages
    /\ Len(saves) < MaxSaves
    /\ IF ~user \/ Len(messages) <= 1
       THEN /\ toast' = <<"Nothing to save", "Have a conversation first before saving.">>
            /\ returnedEarly' = "saveConversation"
            /\ UNCHANGED saves
       ELSE /\ saves' = Append(saves, [id       |-> conversationId,
                                        messages |-> messages,
                                        title    |-> Title(messages),
                                        chat     |-> chat])
            /\ toast' = <<>>
            /\ returnedEarly' = ""
    /\ UNCHANGED <<view, user, loading, error, requests, messages, input, conversationId,
                   stored, chat, quizDataVars, mapVars, parseVars, cardVars, historyVars>>

\* saveConversation from its await on: the update or insert has been carried out
\* (or has thrown), and an insert hands back the id of the new row
saveConversationSettles(k, outcome) ==
    /\ k \in 1..Len(saves)
    /\ IF outcome = "throws"
       THEN /\ toast' = <<"Error", "Failed to save conversation">>
            /\ UNCHANGED <<stored, conversationId>>
       ELSE IF saves[k].id # undefined
       THEN /\ stored' = [stored EXCEPT ![saves[k].id[1]].messages = saves[k].messages,
                                         ![saves[k].id[1]].title = saves[k].title]
            /\ toast' = <<"Success", "Conversation saved successfully!">>
            /\ UNCHANGED conversationId
       ELSE /\ Len(stored) < MaxStored
            /\ stored' = Append(stored, [messages |-> saves[k].messages,
                                          title    |-> saves[k].title,
                                          chat     |-> saves[k].chat])
            /\ conversationId' = Some(Len(stored) + 1)
            /\ toast' = <<"Success", "Conversation saved successfully!">>
    /\ saves' = RemoveAt(saves, k)
    /\ returnedEarly' = ""
    /\ UNCHANGED <<view, user, loading, error, requests, messages, input, chat,
                   quizDataVars, mapVars, parseVars, cardVars, historyVars>>

NextChat ==
    \/ \E value \in ChatInputs : setInput(value)
    \/ sendMessage
    \/ \E k \in 1..Len(requests), outcome \in SendOutcomes : sendMessageSettles(k, outcome)
    \/ startNewChat
    \/ \E id \in 1..MaxStored : loadConversation(id)
    \/ saveConversation
    \/ \E k \in 1..Len(saves), outcome \in SaveOutcomes : saveConversationSettles(k, outcome)

\* AIChatContent
SpecChat == InitChat /\ [][NextChat]_vars

NextAIChat ==
    \/ \E value \in ChatInputs : setInput(value)
    \/ sendMessage
    \/ \E k \in 1..Len(requests), outcome \in SendOutcomes : sendMessageSettles(k, outcome)

\* the AIChat page
SpecAIChat == InitAIChat /\ [][NextAIChat]_vars

(* Claims about the chat views                                               *)

\* C25: in AIChatContent every assistant message other than the first
\* (greeting) message is immediately preceded by a user message, under any
\* interleaving of sendMessage, its response, startNewChat and loading a
\* saved conversation.
C25_AssistantFollowsUser ==
    view = "AIChatContent" =>
        \A k \in 2..Len(messages) :
            messages[k].role = "assistant" => messages[k - 1].role = "user"

\* C26: in AIChatContent the conversationId, when set, names a row stored by
\* the chat on screen, and a save in flight that carries an id carries the id
\* of a row of its own chat; so after startNewChat the id stays null until a
\* save of the new chat completes, and saving the new chat never updates the
\* row of an earlier conversation.
C26_NewChatKeepsOwnRecord ==
    view = "AIChatContent" =>
        /\ conversationId # undefined => stored[conversationId[1]].chat = chat
        /\ \A k \in 1..Len(saves) :
               saves[k].id # undefined => stored[saves[k].id[1]].chat = saves[k].chat

\* C28: in the AIChat page a sendMessage whose request fails leaves the
\* message list equal to the list before the send, the input holding the text
\* that was sent and isLoading false; and sendMessage changes nothing while
\* isLoading is true or the input is blank.
C28_FailedSendRestoresChat ==
    /\ [][\A k \in 1..Len(requests) :
              (view = "AIChat" /\ sendMessageSettles(k, "error")) =>
                  /\ messages' = requests[k].messages
                  /\ input' = requests[k].userMessage
                  /\ ~loading']_vars
    /\ [][(view = "AIChat" /\ (loading \/ trim(input) = "") /\ sendMessage) =>
              UNCHANGED <<messages, input, loading, requests>>]_vars

\* after an answered exchange, a second send has failed and has been undone
C28_Witness ==
    /\ view = "AIChat"
    /\ ~loading
    /\ requests = <<>>
    /\ Len(messages) = 3
    /\ input = "hi"
    /\ Len(toast) > 0 /\ toast[1] = "Error"

-----------------------------------------------------------------------------
(* HistoryContent  (src/src/components/dashboard/FlashcardContent.tsx, from  *)
(* line 607).  A row is modelled by its id.                                  *)

\* the number of delete calls in flight
MaxDeletes == 2

\* the rows of the signed-in user when the view mounts, newest first
StoredRows ==
    [notes            |-> <<"n1", "n2">>,
     ai_conversations |-> <<"c1", "c2">>,
     quiz_attempts    |-> <<"z1">>]

NoteIds == {"n1", "n2"}

ConversationIds == {"c1", "c2"}

QuizIds == {"z1"}

\* how the awaited selects of fetchHistory can settle
FetchOutcomes == {"loaded", "throws"}

\* how the awaited delete can settle: the row is deleted, the call resolves with
\* an error object (not looked at by the code), or the call throws
DeleteOutcomes == {"deleted", "error", "throws"}

\* list.filter(n => n.id !== id)
filterOut(list, id) == SelectSeq(list, LAMBDA n : n # id)

\* the ids in a list
Ids(list) == {list[k] : k \in 1..Len(list)}

\* the view mounts with a signed-in user: loading is true from useState(true) and
\* the effect has called fetchHistory
InitHistory ==
    /\ view = "HistoryContent"
    /\ user = TRUE
    /\ loading = TRUE
    /\ error = <<>>
    /\ requests = <<[kind |-> "fetchHistory", id |-> "", list |-> <<>>]>>
    /\ toast = <<>>
    /\ historyNotes = <<>>
    /\ conversations = <<>>
    /\ quizzes = <<>>
    /\ selectedNote = undefined
    /\ selectedConversation = undefined
    /\ selectedQuiz = undefined
    /\ tables = StoredRows
    /\ QuizIdle /\ MapIdle /\ ParseIdle /\ CardsIdle /\ ChatIdle

\* fetchHistory from its awaits to the end of its finally block
fetchHistorySettles(k, outcome) ==
    /\ k \in 1..Len(requests)
    /\ requests[k].kind = "fetchHistory"
    /\ IF outcome = "loaded"
       THEN /\ historyNotes' = tables.notes
            /\ conversations' = tables.ai_conversations
            /\ quizzes' = tables.quiz_attempts
            /\ toast' = <<>>
       ELSE /\ toast' = <<"Error", "Failed to load history. Please try again.">>
            /\ UNCHANGED <<historyNotes, conversations, quizzes>>
    /\ loading' = FALSE
    /\ requests' = RemoveAt(requests, k)
    /\ UNCHANGED <<view, user, error, selectedNote, selectedConversation, selectedQuiz,
                   tables, quizVars, mapVars, parseVars, cardVars, chatVars>>

\* handleNoteSelect: a click on a note of the list
handleNoteSelect(id) ==
    /\ ~loading
    /\ id \in Ids(historyNotes)
    /\ selectedNote' = Some(id)
    /\ toast' = <<>>
    /\ UNCHANGED <<view, user, loading, error, requests, historyNotes, conversations,
                   quizzes, selectedConversation, selectedQuiz, tables,
                   quizVars, mapVars, parseVars, cardVars, chatVars>>

\* a click on a conversation of the list
setSelectedConversation(id) ==
    /\ ~loading
    /\ id \in Ids(conversations)
    /\ selectedConversation' = Some(id)
    /\ toast' = <<>>
    /\ UNCHANGED <<view, user, loading, error, requests, historyNotes, conversations,
                   quizzes, selectedNote, selectedQuiz, tables,
                   quizVars, mapVars, parseVars, cardVars, chatVars>>

\* a click on a quiz attempt of the list
setSelectedQuiz(id) ==
    /\ ~loading
    /\ id \in Ids(quizzes)
    /\ selectedQuiz' = Some(id)
    /\ toast' = <<>>
    /\ UNCHANGED <<view, user, loading, error, requests, historyNotes, conversations,
                   quizzes, selectedNote, selectedConversation, tables,
                   quizVars, mapVars, parseVars, cardVars, chatVars>>

\* the number of delete calls in flight
DeletesInFlight == Len(SelectSeq(requests, LAMBDA req : req.kind # "fetchHistory"))

\* a delete handler up to its await: the call keeps the list of the render it
\* was made in
DeleteStarts(kind, id, list) ==
    /\ ~loading
    /\ id \in Ids(list)
    /\ DeletesInFlight < MaxDeletes
    /\ requests' = Append(requests, [kind |-> kind, id |-> id, list |-> list])
    /\ toast' = <<>>
    /\ UNCHANGED <<view, user, loading, error, historyVars,
                   quizVars, mapVars, parseVars, cardVars, chatVars>>

deleteNote(id) == DeleteStarts("deleteNote", id, historyNotes)

deleteConversation(id) == DeleteStarts("deleteConversation", id, conversations)

deleteQuiz(id) == DeleteStarts("deleteQuiz", id, quizzes)

\* deleteNote from its await on
deleteNoteSettles(k, outcome) ==
    /\ k \in 1..Len(requests)
    /\ requests[k].kind = "deleteNote"
    /\ tables' = IF outcome = "deleted"
                 THEN [tables EXCEPT !.notes = filterOut(@, requests[k].id)]
                 ELSE tables
    /\ IF outcome = "throws"
       THEN /\ toast' = <<"Error", "Failed to delete note">>
            /\ UNCHANGED <<historyNotes, selectedNote>>
       ELSE /\ historyNotes' = filterOut(requests[k].list, requests[k].id)
            /\ selectedNote' = undefined
            /\ toast' = <<"Success", "Note deleted successfully">>
    /\ requests' = RemoveAt(requests, k)
    /\ UNCHANGED <<view, user, loading, error, conversations, quizzes,
                   selectedConversation, selectedQuiz,
                   quizVars, mapVars, parseVars, cardVars, chatVars>>

\* deleteConversation from its await on
deleteConversationSettles(k, outcome) ==
    /\ k \in 1..Len(requests)
    /\ requests[k].kind = "deleteConversation"
    /\ tables' = IF outcome = "deleted"
                 THEN [tables EXCEPT !.ai_conversations = filterOut(@, requests[k].id)]
                 ELSE tables
    /\ IF outcome = "throws"
       THEN /\ toast' = <<"Error", "Failed to delete conversation">>
            /\ UNCHANGED <<conversations, selectedConversation>>
       ELSE /\ conversations' = filterOut(requests[k].list, requests[k].id)
            /\ selectedConversation' = undefined
            /\ toast' = <<"Success", "Conversation deleted successfully">>
    /\ requests' = RemoveAt(requests, k)
    /\ UNCHANGED <<view, user, loading, error, historyNotes, quizzes,
                   selectedNote, selectedQuiz,
                   quizVars, mapVars, parseVars, cardVars, chatVars>>

\* deleteQuiz from its await on
deleteQuizSettles(k, outcome) ==
    /\ k \in 1..Len(requests)
    /\ requests[k].kind = "deleteQuiz"
    /\ tables' = IF outcome = "deleted"
                 THEN [tables EXCEPT !.quiz_attempts = filterOut(@, requests[k].id)]
                 ELSE tables
    /\ IF outcome = "throws"
       THEN /\ toast' = <<"Error", "Failed to delete quiz">>
            /\ UNCHANGED <<quizzes, selectedQuiz>>
       ELSE /\ quizzes' = filterOut(requests[k].list, requests[k].id)
            /\ selectedQuiz' = undefined
            /\ toast' = <<"Success", "Quiz attempt deleted successfully">>
    /\ requests' = RemoveAt(requests, k)
    /\ UNCHANGED <<view, user, loading, error, historyNotes, conversations,
                   selectedNote, selectedConversation,
                   quizVars, mapVars, parseVars, cardVars, chatVars>>

NextHistory ==
    \/ \E k \in 1..Len(requests), outcome \in FetchOutcomes : fetchHistorySettles(k, outcome)
    \/ \E id \in NoteIds : handleNoteSelect(id)
    \/ \E id \in ConversationIds : setSelectedConversation(id)
    \/ \E id \in QuizIds : setSelectedQuiz(id)
    \/ \E id \in NoteIds : deleteNote(id)
    \/ \E id \in ConversationIds : deleteConversation(id)
    \/ \E id \in QuizIds : deleteQuiz(id)
    \/ \E k \in 1..Len(requests), outcome \in DeleteOutcomes : deleteNoteSettles(k, outcome)
    \/ \E k \in 1..Len(requests), outcome \in DeleteOutcomes :
           deleteConversationSettles(k, outcome)
    \/ \E k \in 1..Len(requests), outcome \in DeleteOutcomes : deleteQuizSettles(k, outcome)

SpecHistory == InitHistory /\ [][NextHistory]_vars

\* C27: in HistoryContent, once the lists have been loaded, an item that is not
\* in its list (it was removed by a completed delete) is not in the list after
\* any further step, whatever the interleaving of overlapping delete calls.
C27_DeletedItemNeverReappears ==
    [][~loading =>
           /\ Ids(historyNotes') \subseteq Ids(historyNotes)
           /\ Ids(conversations') \subseteq Ids(conversations)
           /\ Ids(quizzes') \subseteq Ids(quizzes)]_vars

====
